---- MODULE Spec2Model ----
(***************************************************************************)
(* tiny-mongo: the collection accessor returned by createCollectionFactory *)
(* (src/index.ts), over one collection of a document database.             *)
(*                                                                         *)
(* A document is a function from field names to values; a stored document  *)
(* also has the key "_id".  The collection is the sequence of its          *)
(* documents in natural (insertion) order.  The driver calls the accessor  *)
(* makes (insertOne, findOneAndUpdate, ...) are operators on that sequence.*)
(* Every accessor method is one action up to its hook; the awaited hook is *)
(* a second step (RunHook), so that the state between the database write   *)
(* and the return of the call is a state of the model.                     *)
(*                                                                         *)
(* Calls are made with the arguments the methods name.  Of the driver      *)
(* options only returnOriginal of findOneAndUpdate is modelled (it decides *)
(* which image updateOne returns); the driver is the 3.x line the imports  *)
(* and result.ops belong to, whose default is returnOriginal = true.       *)
(***************************************************************************)
EXTENDS Integers, Sequences, FiniteSets, TLC

\* ---------------------------------------------------------------- bounds
\* number of _id values the database hands out in one behaviour
MaxId == 2
\* longest input array given to createMany
MaxBatch == 2

\* ------------------------------------------------------------ value space
Names == {"Yoda", "Vader"}
Flags == {"false", "true"}
Fields == {"name", "isAdmin"}

FieldValues(k) == IF k = "name" THEN Names ELSE Flags

\* all field mappings with exactly the keys S
MapsOn(S) == {f \in [S -> Names \cup Flags] : \A k \in S : f[k] \in FieldValues(k)}

PartialMaps == UNION {MapsOn(S) : S \in SUBSET Fields}

\* createOne / createMany inputs: the fields Defaults never covers are given
Inputs == {f \in PartialMaps : "name" \in DOMAIN f}

\* update: Partial<T>: a field the document has, a field it may lack, both
Updates ==
  {[isAdmin |-> "true"], [isAdmin |-> "false"], [name |-> "Vader"],
   [name |-> "Yoda", isAdmin |-> "true"]}

\* a FilterQuery: a set of equality filters, one of which must hold ($or);
\* a plain filter is the singleton
Queries ==
  {{f} : f \in {g \in PartialMaps : Cardinality(DOMAIN g) = 1}}
    \cup {{[name |-> "Yoda"], [name |-> "Vader"]}}

\* the hooks a collection is configured with: each hook is set in one
\* configuration and left out of the other
HookConfigs == {{"postCreateHook"}, {"postUpdateHook", "postDeleteHook"}}

\* an optional value: <<>> is null / undefined, <<v>> is v
Null == <<>>
Some(v) == <<v>>
IsNull(o) == Len(o) = 0
Get(o) == o[1]

VARIABLES
  store,     \* the collection: stored documents in natural order
  nextId,    \* the next _id the database assigns
  defaults,  \* config.defaults: Null or Some(mapping)
  hooks,     \* the kinds of hook config.hooks holds
  pc,        \* "idle", or "hook" while a call awaits its hook
  call,      \* the call in progress or last completed: op, arguments, locals
  ret,       \* what that call gave its caller
  hookLog    \* the hook invocations of that call, in order

vars == <<store, nextId, defaults, hooks, pc, call, ret, hookLog>>

\* ------------------------------------------------------- driver, helpers
\* { ...a, ...b }
Spread(a, b) ==
  [k \in DOMAIN a \cup DOMAIN b |-> IF k \in DOMAIN b THEN b[k] ELSE a[k]]

WithId(doc, id) == Spread([_id |-> id], doc)

FilterHolds(doc, f) == \A k \in DOMAIN f : k \in DOMAIN doc /\ doc[k] = f[k]

Matches(doc, query) == \E f \in query : FilterHolds(doc, f)

MatchingIndexes(st, query) == {i \in 1..Len(st) : Matches(st[i], query)}

Min(S) == CHOOSE i \in S : \A j \in S : i <= j

\* FirstMatch with the filter ignored when nothing matches
FirstMatchOrFirst(st, query) ==
  IF MatchingIndexes(st, query) # {} THEN Min(MatchingIndexes(st, query))
  ELSE IF Len(st) = 0 THEN 0 ELSE 1

\* index of the first document matching the query, 0 when there is none
FirstMatch(st, query) ==
  IF MatchingIndexes(st, query) = {} THEN 0 ELSE Min(MatchingIndexes(st, query))

RemoveAt(st, i) == SubSeq(st, 1, i - 1) \o SubSeq(st, i + 1, Len(st))

Ids(st) == {st[i]["_id"] : i \in 1..Len(st)}

\* the configurations a collection is created with
DefaultsChoices == {Null, Some([isAdmin |-> "false"])}

\* the message of the Error createOne throws
CreationError == "Failed to create new document"
\* a rejection of the awaited hook
HookError == "hook rejected"

\* what the driver's insertOne can report
InsertReports == {"ok", "noOps", "notOk"}
HookOutcomes == {"resolve", "reject"}

\* database.collection(name).insertOne(doc): the document is written with a
\* fresh _id and reported in ops with ok = 1; a report without ops, or with
\* ok = 0, is of an insert that wrote nothing
insertOne(st, id, doc, report) ==
  IF report = "ok"
  THEN [store |-> Append(st, WithId(doc, id)), nextId |-> id + 1,
        hasOps |-> TRUE, ops |-> <<WithId(doc, id)>>, ok |-> 1]
  ELSE IF report = "noOps"
  THEN [store |-> st, nextId |-> id, hasOps |-> FALSE, ops |-> <<>>, ok |-> 1]
  ELSE [store |-> st, nextId |-> id,
        hasOps |-> TRUE, ops |-> <<WithId(doc, id)>>, ok |-> 0]

\* database.collection(name).insertMany(docs)
insertMany(st, id, docs) ==
  [store |-> st \o [i \in 1..Len(docs) |-> WithId(docs[i], id + i - 1)],
   nextId |-> id + Len(docs),
   insertedIds |-> [i \in 1..Len(docs) |-> id + i - 1]]

\* SetFields with the update replacing the document instead of { $set: update }
SetFieldsReplacing(doc, update) == WithId(update, doc["_id"])

\* { $set: update } applied to one document
SetFields(doc, update) ==
  [k \in DOMAIN doc \cup DOMAIN update |->
     IF k \in DOMAIN update THEN update[k] ELSE doc[k]]

\* the driver's returnOriginal when the options do not set it
ReturnOriginalDefault == TRUE

\* database.collection(name).findOneAndUpdate(query, {$set: update}, options):
\* the first matching document is updated in place; value is that document
\* before the update when returnOriginal, after it otherwise
findOneAndUpdate(st, query, update, returnOriginal) ==
  LET i == FirstMatch(st, query) IN
  IF i = 0 THEN [store |-> st, value |-> Null]
  ELSE LET updated == [st EXCEPT ![i] = SetFields(st[i], update)] IN
       [store |-> updated,
        value |-> IF returnOriginal THEN Some(st[i]) ELSE Some(updated[i])]

\* findOneAndDelete removing every matching document
findOneAndDeleteAll(st, query) ==
  LET i == FirstMatch(st, query) IN
  IF i = 0 THEN [store |-> st, value |-> Null]
  ELSE [store |-> SelectSeq(st, LAMBDA d : ~Matches(d, query)), value |-> Some(st[i])]

\* database.collection(name).findOneAndDelete(query)
findOneAndDelete(st, query) ==
  LET i == FirstMatch(st, query) IN
  IF i = 0 THEN [store |-> st, value |-> Null]
  ELSE [store |-> RemoveAt(st, i), value |-> Some(st[i])]

\* database.collection(name).findOne(query)
findOne(st, query) ==
  LET i == FirstMatch(st, query) IN IF i = 0 THEN Null ELSE Some(st[i])

\* database.collection(name).find(query).toArray()
find(st, query) == SelectSeq(st, LAMBDA d : Matches(d, query))

\* database.collection(name).updateMany(query, {$set: update})
updateMany(st, query, update) ==
  [store |-> [i \in 1..Len(st) |->
                IF Matches(st[i], query) THEN SetFields(st[i], update) ELSE st[i]],
   matchedCount |-> Cardinality(MatchingIndexes(st, query)),
   modifiedCount |-> Cardinality({i \in MatchingIndexes(st, query) :
                                    SetFields(st[i], update) # st[i]})]

\* database.collection(name).deleteMany(query)
deleteMany(st, query) ==
  [store |-> SelectSeq(st, LAMBDA d : ~Matches(d, query)),
   deletedCount |-> Cardinality(MatchingIndexes(st, query))]

\* ------------------------------------------------------------ the accessor
\* InputWithDefaults with the spread order swapped: { ...input, ...defaults }
InputWithDefaultsSwapped(input) ==
  IF IsNull(defaults) THEN input ELSE Spread(input, Get(defaults))

\* defaults ? { ...defaults, ...input } : input
InputWithDefaults(input) ==
  IF IsNull(defaults) THEN input ELSE Spread(Get(defaults), input)

\* NewDocument without the result.result.ok test
NewDocumentIgnoringOk(result) ==
  IF result.hasOps /\ Len(result.ops) > 0 THEN Some(result.ops[1]) ELSE Null

\* NewDocument giving back the document as it was passed in, without its _id
NewDocumentWithoutId(result) ==
  IF result.hasOps /\ result.ok # 0 /\ Len(result.ops) > 0
  THEN Some([k \in DOMAIN result.ops[1] \ {"_id"} |-> result.ops[1][k]]) ELSE Null

\* result.ops && result.result.ok ? result.ops[0] : undefined
NewDocument(result) ==
  IF result.hasOps /\ result.ok # 0 /\ Len(result.ops) > 0
  THEN Some(result.ops[1]) ELSE Null

\* hooks && hooks.postCreateHook
CreateHookDue == "postCreateHook" \in hooks
\* updatedDocument && hooks && hooks.postUpdateHook
UpdateHookDue(updatedDocument) ==
  ~IsNull(updatedDocument) /\ "postUpdateHook" \in hooks
\* deletedDocument && hooks && hooks.postDeleteHook
DeleteHookDue(deletedDocument) ==
  ~IsNull(deletedDocument) /\ "postDeleteHook" \in hooks

\* HookOf with updateOne awaiting the delete hook
HookOfCopied(op) ==
  IF op = "createOne" THEN "postCreateHook" ELSE "postDeleteHook"

\* the hook each method awaits
HookOf(op) ==
  IF op = "createOne" THEN "postCreateHook"
  ELSE IF op = "updateOne" THEN "postUpdateHook" ELSE "postDeleteHook"

Pending == [kind |-> "pending"]
\* return document  (a document or null)
Returned(value) ==
  IF IsNull(value) THEN [kind |-> "null"] ELSE [kind |-> "doc", doc |-> Get(value)]
Thrown(error) == [kind |-> "error", error |-> error]

\* AwaitHook with the rejection swallowed
AwaitHookSwallowing(outcome, value) == Returned(value)

\* await hook(document); return document
AwaitHook(outcome, value) ==
  IF outcome = "reject" THEN Thrown(HookError) ELSE Returned(value)

\* result || null
OrNull(result) == IF IsNull(result) THEN Null ELSE result

\* MatchedCount reading result.modifiedCount
ModifiedCount(result) == result.modifiedCount

\* result.matchedCount
MatchedCount(result) == result.matchedCount

\* result.deletedCount
DeletedCount(result) == result.deletedCount

\* the call either goes on to await its hook or returns its document
Finish(due, value) ==
  /\ hookLog' = <<>>
  /\ IF due THEN pc' = "hook" /\ ret' = Pending
            ELSE pc' = "idle" /\ ret' = Returned(value)

Init ==
  /\ store = <<>>
  /\ nextId = 1
  /\ defaults \in DefaultsChoices
  /\ hooks \in HookConfigs
  /\ pc = "idle"
  /\ call = [op |-> "none"]
  /\ ret = [kind |-> "none"]
  /\ hookLog = <<>>

CreateOne(input, report) ==
  /\ pc = "idle"
  /\ nextId <= MaxId
  /\ LET inputWithDefaults == InputWithDefaults(input)
         result == insertOne(store, nextId, inputWithDefaults, report)
         newDocument == NewDocument(result)
     IN /\ store' = result.store
        /\ nextId' = result.nextId
        /\ call' = [op |-> "createOne", input |-> input,
                    hasOps |-> result.hasOps, ok |-> result.ok,
                    value |-> newDocument]
        /\ IF IsNull(newDocument)
           THEN pc' = "idle" /\ ret' = Thrown(CreationError) /\ hookLog' = <<>>
           ELSE Finish(CreateHookDue, newDocument)
  /\ UNCHANGED <<defaults, hooks>>

CreateMany(inputs) ==
  /\ pc = "idle"
  /\ nextId + Len(inputs) - 1 <= MaxId
  /\ LET inputsWithDefaults == [i \in 1..Len(inputs) |-> InputWithDefaults(inputs[i])]
         result == insertMany(store, nextId, inputsWithDefaults)
     IN /\ store' = result.store
        /\ nextId' = result.nextId
        /\ call' = [op |-> "createMany", inputs |-> inputs]
        /\ ret' = [kind |-> "ids", ids |-> result.insertedIds]
  /\ pc' = "idle"
  /\ hookLog' = <<>>
  /\ UNCHANGED <<defaults, hooks>>

UpdateOne(query, update) ==
  /\ pc = "idle"
  /\ LET result == findOneAndUpdate(store, query, update, ReturnOriginalDefault)
         updatedDocument == result.value
     IN /\ store' = result.store
        /\ call' = [op |-> "updateOne", query |-> query, update |-> update,
                    value |-> updatedDocument]
        /\ Finish(UpdateHookDue(updatedDocument), updatedDocument)
  /\ UNCHANGED <<nextId, defaults, hooks>>

DeleteOne(query) ==
  /\ pc = "idle"
  /\ LET result == findOneAndDelete(store, query)
         deletedDocument == result.value
     IN /\ store' = result.store
        /\ call' = [op |-> "deleteOne", query |-> query, value |-> deletedDocument]
        /\ Finish(DeleteHookDue(deletedDocument), deletedDocument)
  /\ UNCHANGED <<nextId, defaults, hooks>>

\* the awaited hook settles and the call returns or rejects
RunHook(outcome) ==
  /\ pc = "hook"
  /\ hookLog' = Append(hookLog, [kind |-> HookOf(call.op), arg |-> Get(call.value),
                                 outcome |-> outcome])
  /\ ret' = AwaitHook(outcome, call.value)
  /\ pc' = "idle"
  /\ UNCHANGED <<store, nextId, defaults, hooks, call>>

\* call.after is history: the input and the document of the createOne this
\* read immediately follows, Null when it follows another call or a failed one
ReadOne(query) ==
  /\ pc = "idle"
  /\ LET result == findOne(store, query)
     IN /\ call' = [op |-> "readOne", query |-> query,
                    after |-> IF call.op = "createOne" /\ ret.kind = "doc"
                              THEN Some([input |-> call.input, doc |-> ret.doc])
                              ELSE Null]
        /\ ret' = Returned(OrNull(result))
  /\ hookLog' = <<>>
  /\ UNCHANGED <<store, nextId, defaults, hooks, pc>>

ReadMany(query) ==
  /\ pc = "idle"
  /\ call' = [op |-> "readMany", query |-> query]
  /\ ret' = [kind |-> "docs", docs |-> find(store, query)]
  /\ hookLog' = <<>>
  /\ UNCHANGED <<store, nextId, defaults, hooks, pc>>

UpdateMany(query, update) ==
  /\ pc = "idle"
  /\ LET result == updateMany(store, query, update)
     IN /\ store' = result.store
        /\ call' = [op |-> "updateMany", query |-> query, update |-> update]
        /\ ret' = [kind |-> "count", n |-> MatchedCount(result)]
  /\ hookLog' = <<>>
  /\ UNCHANGED <<nextId, defaults, hooks, pc>>

DeleteMany(query) ==
  /\ pc = "idle"
  /\ LET result == deleteMany(store, query)
     IN /\ store' = result.store
        /\ call' = [op |-> "deleteMany", query |-> query]
        /\ ret' = [kind |-> "count", n |-> DeletedCount(result)]
  /\ hookLog' = <<>>
  /\ UNCHANGED <<nextId, defaults, hooks, pc>>

\* createMany inputs: arrays of one input that leaves isAdmin to the defaults
\* and one that sets it
BatchElements == {[name |-> "Yoda"], [name |-> "Vader", isAdmin |-> "true"]}
BatchInputs == UNION {[1..n -> BatchElements] : n \in 1..MaxBatch}

Next ==
  \/ \E input \in Inputs, report \in InsertReports : CreateOne(input, report)
  \/ \E inputs \in BatchInputs : CreateMany(inputs)
  \/ \E query \in Queries, update \in Updates : UpdateOne(query, update)
  \/ \E query \in Queries : DeleteOne(query)
  \/ \E outcome \in HookOutcomes : RunHook(outcome)
  \/ \E query \in Queries : ReadOne(query)
  \/ \E query \in Queries : ReadMany(query)
  \/ \E query \in Queries, update \in Updates : UpdateMany(query, update)
  \/ \E query \in Queries : DeleteMany(query)

Spec == Init /\ [][Next]_vars

TypeOK ==
  /\ pc \in {"idle", "hook"}
  /\ nextId \in 1..(MaxId + 1)
  /\ Len(store) <= MaxId

\* ------------------------------------------------------------- properties
EmptyMap == [k \in {} |-> "false"]

ConfiguredDefaults == IF IsNull(defaults) THEN EmptyMap ELSE Get(defaults)

SingleMutations == {"createOne", "updateOne", "deleteOne"}

\* the write of the single-document mutation c is in the collection st
WriteCommitted(c, st) ==
  IF c.op = "createOne" THEN \E i \in 1..Len(st) : st[i] = Get(c.value)
  ELSE IF c.op = "deleteOne" THEN Get(c.value)["_id"] \notin Ids(st)
  ELSE \E i \in 1..Len(st) :
         /\ st[i]["_id"] = Get(c.value)["_id"]
         /\ \A k \in DOMAIN c.update : k \in DOMAIN st[i] /\ st[i][k] = c.update[k]

\* C1: the document createOne returns is the shallow overlay of Defaults by
\* input plus a database-assigned _id: every key of input carries input's
\* value, every key of Defaults that input omits carries the default, there
\* is no other field besides _id, and without Defaults it is input plus _id.
C1_CreateOneMergesDefaults ==
  (call.op = "createOne" /\ ret.kind = "doc") =>
    LET doc == ret.doc
        input == call.input
        D == ConfiguredDefaults
    IN /\ DOMAIN doc = DOMAIN input \cup DOMAIN D \cup {"_id"}
       /\ \A k \in DOMAIN input : doc[k] = input[k]
       /\ \A k \in DOMAIN D \ DOMAIN input : doc[k] = D[k]
       /\ IsNull(defaults) => DOMAIN doc = DOMAIN input \cup {"_id"}
       /\ \E i \in 1..Len(store) :
            /\ store[i] = doc
            /\ \A j \in 1..Len(store) : j # i => store[j]["_id"] # doc["_id"]

\* createOne returned a document whose input overrode a default
C1_Witness ==
  /\ call.op = "createOne" /\ ret.kind = "doc"
  /\ ~IsNull(defaults)
  /\ "isAdmin" \in DOMAIN call.input
  /\ call.input["isAdmin"] # Get(defaults)["isAdmin"]

\* C2: the document updateOne returns (and passes to the post-update hook)
\* is the post-image: it carries update's value in every field update names,
\* exactly as the document is stored after the call.
C2_UpdateOneReturnsPostImage ==
  /\ (call.op = "updateOne" /\ ret.kind = "doc") =>
       /\ \A k \in DOMAIN call.update :
            k \in DOMAIN ret.doc /\ ret.doc[k] = call.update[k]
       /\ \E i \in 1..Len(store) : store[i] = ret.doc
  /\ (call.op = "updateOne" /\ hookLog # <<>>) =>
       \E i \in 1..Len(store) : store[i] = hookLog[1].arg

\* C3: readOne, updateOne and deleteOne with a query that matches no stored
\* document complete normally, return null, and leave the collection as it was.
C3_NotFoundReturnsNull ==
  [][(/\ pc = "idle"
      /\ call'.op \in {"readOne", "updateOne", "deleteOne"}
      /\ \A i \in 1..Len(store) : ~Matches(store[i], call'.query))
     => (/\ pc' = "idle"
         /\ ret' = [kind |-> "null"]
         /\ hookLog' = <<>>
         /\ store' = store)]_vars

\* updateOne found nothing in a collection that holds documents
C3_Witness ==
  /\ call.op = "updateOne" /\ ret.kind = "null" /\ pc = "idle"
  /\ Len(store) > 0
  /\ "postUpdateHook" \in hooks

\* C4: a createOne, updateOne or deleteOne that affects a document invokes
\* the configured hook of its own kind, and no other, exactly once, after the
\* database write and before the call returns, with the document the call
\* returns; one that matches nothing invokes no hook; createMany (like every
\* bulk call and read) invokes none.
C4_HookDispatch ==
  /\ pc = "hook" =>
       /\ call.op \in SingleMutations
       /\ ~IsNull(call.value)
       /\ hookLog = <<>>
       /\ ret.kind = "pending"
       /\ WriteCommitted(call, store)
  /\ (pc = "idle" /\ call.op \in SingleMutations) =>
       LET own == IF call.op = "createOne" THEN "postCreateHook"
                  ELSE IF call.op = "updateOne" THEN "postUpdateHook"
                  ELSE "postDeleteHook"
       IN IF ~IsNull(call.value) /\ own \in hooks
          THEN /\ Len(hookLog) = 1
               /\ hookLog[1].kind = own
               /\ hookLog[1].arg = Get(call.value)
               /\ ret.kind \in {"doc", "error"}
               /\ ret.kind = "doc" => ret.doc = hookLog[1].arg
          ELSE hookLog = <<>>
  /\ call.op \notin SingleMutations => hookLog = <<>> /\ pc = "idle"

\* updateOne returned the document it had given its update hook
C4_Witness ==
  /\ call.op = "updateOne" /\ pc = "idle" /\ ret.kind = "doc"
  /\ Len(hookLog) = 1
  /\ hookLog[1].kind = "postUpdateHook"

\* C5: updateMany and deleteMany return the number of stored documents the
\* query matches (0 when none; for updateMany also those already equal to
\* the update) and invoke no hook, also when the hooks are configured.
C5_BulkCountsNoHooks ==
  [][(pc = "idle" /\ call'.op \in {"updateMany", "deleteMany"})
     => (/\ ret'.kind = "count"
         /\ ret'.n = Cardinality({i \in 1..Len(store) : Matches(store[i], call'.query)})
         /\ call'.op = "deleteMany" => ret'.n = Len(store) - Len(store')
         /\ hookLog' = <<>>
         /\ pc' = "idle")]_vars

\* updateMany counted two documents that already carried the update, with
\* the update hook configured
C5_Witness ==
  /\ call.op = "updateMany"
  /\ call.query = {[isAdmin |-> "true"]}
  /\ call.update = [isAdmin |-> "true"]
  /\ ret.n = 2
  /\ "postUpdateHook" \in hooks

\* query is an equality filter on one field of input, with input's value
IsFieldQueryOf(query, input) ==
  \E k \in DOMAIN input : query = {[j \in {k} |-> input[k]]}

\* a readOne that immediately follows a createOne that returned a document,
\* with a query on a field value of that createOne's input
ReadAfterCreate ==
  /\ call.op = "readOne"
  /\ ~IsNull(call.after)
  /\ IsFieldQueryOf(call.query, Get(call.after).input)

\* C6 as stated: createOne(input) followed by readOne with a query on a
\* field value of input yields the document createOne returned, whatever
\* else the collection holds.
C6_RoundTripAnyStore ==
  ReadAfterCreate => ret = [kind |-> "doc", doc |-> Get(call.after).doc]

\* C6 as amended: createOne(input) followed by readOne with a query on a
\* field value of input yields a document equal to the one createOne
\* returned, _id and merged defaults included, when no other stored document
\* matches that query.
C6_RoundTripSoleMatch ==
  (ReadAfterCreate /\ Cardinality(MatchingIndexes(store, call.query)) <= 1)
    => ret = [kind |-> "doc", doc |-> Get(call.after).doc]

\* the read found the created document, defaults merged, next to another
\* document the query does not match
C6_Witness ==
  /\ ReadAfterCreate
  /\ Len(store) = 2
  /\ Cardinality(MatchingIndexes(store, call.query)) = 1
  /\ "isAdmin" \notin DOMAIN Get(call.after).input
  /\ ret.kind = "doc"
  /\ "isAdmin" \in DOMAIN ret.doc

\* C7: a deleteOne whose query matches returns one matching document as it
\* was stored before the call, removes exactly that document and leaves every
\* other document, matching or not, as it was; a readOne that could match
\* only the removed document then finds nothing.
C7_DeleteOneFrame ==
  [][/\ (pc = "idle" /\ call'.op = "deleteOne"
           /\ MatchingIndexes(store, call'.query) # {})
          => \E i \in MatchingIndexes(store, call'.query) :
               /\ call'.value = Some(store[i])
               /\ ret'.kind \in {"doc", "pending"}
               /\ store' = [n \in 1..(Len(store) - 1) |->
                              IF n < i THEN store[n] ELSE store[n + 1]]
               /\ \A q \in Queries :
                    (\A j \in 1..Len(store) : Matches(store[j], q) => j = i)
                      => Returned(OrNull(findOne(store', q))) = [kind |-> "null"]
     /\ (call'.op = "deleteOne" /\ ret'.kind = "doc")
          => ret'.doc = Get(call'.value)]_vars

\* deleteOne returned a document and another document matching the same
\* query is still stored
C7_Witness ==
  /\ call.op = "deleteOne" /\ ret.kind = "doc"
  /\ \E i \in 1..Len(store) : Matches(store[i], call.query)
  /\ Matches(ret.doc, call.query)

\* the document was is now with the fields of update u overlaid
IsOverlay(was, now, u) ==
  /\ DOMAIN now = DOMAIN was \cup DOMAIN u
  /\ \A k \in DOMAIN u : now[k] = u[k]
  /\ \A k \in DOMAIN was \ DOMAIN u : now[k] = was[k]
  /\ now["_id"] = was["_id"]

\* the collection now is the collection was with u overlaid on the documents
\* at the indexes in applied and nothing else changed
OnlyOverlaid(was, now, applied, u) ==
  /\ Len(now) = Len(was)
  /\ \A i \in 1..Len(was) :
       IF i \in applied THEN IsOverlay(was[i], now[i], u) ELSE now[i] = was[i]

\* C8: updateOne and updateMany are partial overlays: each document the call
\* applies to has exactly the fields of update set to update's values, its
\* _id and other fields unchanged; every other document is unchanged;
\* updateMany applies to all matching documents, updateOne to one of them;
\* the stored _ids are the same before and after.
C8_UpdateOverlay ==
  [][(pc = "idle" /\ call'.op \in {"updateOne", "updateMany"})
     => LET matching == MatchingIndexes(store, call'.query) IN
        /\ Ids(store') = Ids(store)
        /\ IF matching = {} THEN store' = store
           ELSE IF call'.op = "updateMany"
           THEN OnlyOverlaid(store, store', matching, call'.update)
           ELSE \E i \in matching : OnlyOverlaid(store, store', {i}, call'.update)]_vars

\* updateOne applied to one document and left another matching document,
\* which does not carry the update, as it was
C8_Witness ==
  /\ call.op = "updateOne" /\ ~IsNull(call.value)
  /\ \E i \in 1..Len(store) :
       /\ Matches(store[i], call.query)
       /\ \E k \in DOMAIN call.update :
            k \notin DOMAIN store[i] \/ store[i][k] # call.update[k]
  /\ \E i \in 1..Len(store) :
       /\ store[i]["_id"] = Get(call.value)["_id"]
       /\ DOMAIN store[i] # DOMAIN call.update \cup {"_id"}

\* C9: when the hook of createOne, updateOne or deleteOne fails, the call
\* fails and returns no document, and the write stays: the collection is not
\* changed by the failure and holds the created / updated / deleted state.
C9_HookFailureKeepsWrite ==
  [][pc = "hook"
     => /\ store' = store
        /\ WriteCommitted(call', store')
        /\ hookLog'[Len(hookLog')].outcome = "reject"
             => ret'.kind = "error" /\ pc' = "idle"]_vars

\* the create hook failed: createOne threw and the document is stored
C9_Witness ==
  /\ call.op = "createOne"
  /\ ret = Thrown(HookError)
  /\ \E i \in 1..Len(store) : store[i] = Get(call.value)

\* C10: createOne throws its creation error whenever the insert reports no
\* document written (no ops, or a not-ok result); then the create hook is
\* not invoked and no document is returned; createOne never returns a
\* document (nor reaches its hook) without an insert that reported one.
C10_CreationError ==
  call.op = "createOne" =>
    /\ (~call.hasOps \/ call.ok = 0)
         => ret = Thrown(CreationError) /\ hookLog = <<>> /\ pc = "idle"
    /\ (ret.kind = "doc" \/ pc = "hook" \/ hookLog # <<>>)
         => call.hasOps /\ call.ok = 1

\* the insert reported a document with a not-ok result, the create hook
\* being configured, and createOne threw
C10_Witness ==
  /\ call.op = "createOne"
  /\ call.hasOps /\ call.ok = 0
  /\ "postCreateHook" \in hooks
  /\ ret.kind = "error"

====
